---- MODULE Spec2Model ----
(***************************************************************************)
(* A model of include/graph/Algorithms.hpp (namespace graph): the          *)
(* component, subgraph and degree-preserving randomisation algorithms      *)
(* over an undirected boost::adjacency_list whose vertices are 0..n-1.     *)
(*                                                                         *)
(* A graph is a record [n, edges]: n vertices and the edge list in         *)
(* insertion order, every edge the pair <<source, target>> it was added    *)
(* with.  Parallel edges and self-loops are representable, as they are in  *)
(* an adjacency_list with vector out-edge lists.                           *)
(***************************************************************************)
EXTENDS Integers, Sequences, FiniteSets

\* Bounds of the explored inputs: vertices and edges of the input graph,
\* the swap count passed to randomizeEndpoints on the graphs it is meant
\* for (Spec) and on arbitrary graphs (SpecAny).
MaxN == 4
MaxE == 3
MaxCount == 2
MaxCountAny == 3
\* With an empty snapshot the index distribution ranges over 0..SIZE_MAX;
\* the drawn indices are sampled from 0..EmptyDrawMax.
EmptyDrawMax == 1
\* The longest pair list handed to add_edges.
MaxIn == 2

VARIABLES
    g,        \* the graph the host owns (changed in place by add_edges,
              \* removeEdgeLoops and randomizeEndpoints)
    pc,       \* position of the running call
    op,       \* name of the function called
    arg,      \* its argument besides g: the pair list, indices, min_size or count
    comp,     \* component buffer filled by connectedComponents
    ret,      \* value returned by connectedComponents or is_adjacent
    indices,  \* vertex list produced by largestComponentIndices / keep list
    out,      \* output graph of subgraph, filterComponents, largestComponent
    g0,       \* the graph as it was when the function was called
    edges,    \* the vector get_edges fills: randomizeEndpoints' edge snapshot
    swaps,    \* randomizeEndpoints: accepted swaps so far
    draw      \* randomizeEndpoints: locals of the current iteration

vars == <<g, pc, op, arg, comp, ret, indices, out, g0, edges, swaps, draw>>

----------------------------------------------------------------------------
(* The graph interface used by the algorithms.                             *)

Vertices(gr) == 0 .. (gr.n - 1)

num_vertices(gr) == gr.n

\* G(k): k vertices, no edge.
NewGraph(k) == [n |-> k, edges |-> << >>]

\* The two endpoints of an edge, as an unordered pair.
Ends(e) == {e[1], e[2]}

\* add_edge(u, v, g): appends the edge; duplicates are not checked.
add_edge(u, v, gr) == [gr EXCEPT !.edges = Append(@, <<u, v>>)]

\* remove_edge(u, v, g) of an undirected adjacency_list: removes every edge
\* between u and v (all parallel copies), in either orientation.
remove_edge(u, v, gr) ==
    [gr EXCEPT !.edges = SelectSeq(@, LAMBDA e : Ends(e) # {u, v})]

\* get_edges: one <<source, target>> pair per edge, in edges(g) order.
get_edges(gr) == gr.edges

RECURSIVE add_edges_from(_, _, _)
add_edges_from(in, k, gr) ==
    IF k > Len(in) THEN gr
    ELSE add_edges_from(in, k + 1, add_edge(in[k][1], in[k][2], gr))

\* add_edges(in, g): add_edge for every pair of the list, in order.
add_edges(in, gr) == add_edges_from(in, 1, gr)

\* removeEdgeLoops(g): remove_edge_if(source == target).
removeEdgeLoops(gr) ==
    [gr EXCEPT !.edges = SelectSeq(@, LAMBDA e : e[1] # e[2])]

\* A variant that sees only the edges stored as <<u, v>>.
is_adjacent_directed(gr, u, v) ==
    \E i \in 1 .. Len(gr.edges) : gr.edges[i] = <<u, v>>

\* is_adjacent: some out-edge of u has target v.  The out-edges of u in an
\* undirected graph are the edges with u at either end.
is_adjacent(gr, u, v) ==
    \E i \in 1 .. Len(gr.edges) :
        \/ gr.edges[i][1] = u /\ gr.edges[i][2] = v
        \/ gr.edges[i][2] = u /\ gr.edges[i][1] = v

\* Neighbours of u: the targets of its out-edges.
adjacent_vertices(gr, u) == {v \in Vertices(gr) : is_adjacent(gr, u, v)}

----------------------------------------------------------------------------
(* subgraph                                                                *)

\* The reverse mapping map[indices[i]] = i, i = 0 .. size-1: a later
\* assignment to the same key overwrites an earlier one.
IndexMap(ind) ==
    [old \in {ind[i] : i \in 1 .. Len(ind)} |->
        (CHOOSE i \in 1 .. Len(ind) :
            /\ ind[i] = old
            /\ \A j \in 1 .. Len(ind) : ind[j] = old => j <= i) - 1]

RECURSIVE CopyEdges(_, _, _, _)
\* The edge loop: edges of g in order, copied when both ends are mapped.
CopyEdges(es, k, map, acc) ==
    IF k > Len(es) THEN acc
    ELSE LET u == es[k][1]
             v == es[k][2]
         IN  IF u \in DOMAIN map /\ v \in DOMAIN map
             THEN CopyEdges(es, k + 1, map, add_edge(map[u], map[v], acc))
             ELSE CopyEdges(es, k + 1, map, acc)

\* A variant that copies an edge when either end is kept.
subgraph_one_end(gr, ind) ==
    LET map == IndexMap(ind)
        keep == SelectSeq(gr.edges, LAMBDA e : e[1] \in DOMAIN map \/ e[2] \in DOMAIN map)
    IN  [n |-> Len(ind),
         edges |-> [i \in 1 .. Len(keep) |->
                      <<IF keep[i][1] \in DOMAIN map THEN map[keep[i][1]] ELSE 0,
                        IF keep[i][2] \in DOMAIN map THEN map[keep[i][2]] ELSE 0>>]]

subgraph(gr, ind) == CopyEdges(gr.edges, 1, IndexMap(ind), NewGraph(Len(ind)))

----------------------------------------------------------------------------
(* connectedComponents                                                     *)

RECURSIVE Visit(_, _, _)
\* The vertices a depth-first search from the frontier discovers.
Visit(gr, seen, frontier) ==
    IF frontier = {} THEN seen
    ELSE LET next == UNION {adjacent_vertices(gr, u) : u \in frontier} \ seen
         IN  Visit(gr, seen \cup next, next)

RECURSIVE LabelFrom(_, _, _, _)
\* boost::connected_components: the vertices are scanned in ascending
\* order; a vertex not yet labelled starts the next component and the
\* search from it labels everything it discovers.  -1 marks "unlabelled".
LabelFrom(gr, v, c, lab) ==
    IF v >= gr.n THEN [comp |-> lab, ret |-> c]
    ELSE IF lab[v] # -1 THEN LabelFrom(gr, v + 1, c, lab)
    ELSE LET found == Visit(gr, {v}, {v})
         IN  LabelFrom(gr, v + 1, c + 1,
                       [w \in Vertices(gr) |->
                           IF w \in found /\ lab[w] = -1 THEN c ELSE lab[w]])

\* connectedComponents(g, comp): comp resized to n and filled; returns the
\* number of components.  The set of outcomes of a call: with n = 0 the
\* expression &comp[0] indexes an empty vector, which is undefined
\* behaviour; a plain build forms the pointer, never uses it and returns 0,
\* a build with library assertions aborts at that line.
connectedComponents(gr) ==
    IF gr.n = 0
    THEN {[status |-> "ok", comp |-> << >>, ret |-> 0],
          [status |-> "abort", comp |-> << >>, ret |-> 0]}
    ELSE LET r == LabelFrom(gr, 0, 0, [w \in Vertices(gr) |-> -1])
         IN  {[status |-> "ok", comp |-> r.comp, ret |-> r.ret]}

\* std::vector<int> count(n, 0); for(auto i : comp) count[i]++;
CountLabels(gr, lab) ==
    [i \in Vertices(gr) |-> Cardinality({v \in Vertices(gr) : lab[v] = i})]

\* The vertices that satisfy keep, in ascending index order.
RECURSIVE Ascending(_, _, _)
Ascending(n, i, keep) ==
    IF i >= n THEN << >>
    ELSE IF i \in keep THEN <<i>> \o Ascending(n, i + 1, keep)
    ELSE Ascending(n, i + 1, keep)

----------------------------------------------------------------------------
(* filterComponents                                                        *)

\* The keep list, from the labels connectedComponents filled in.
filterKeep(gr, lab, min_size) ==
    LET count == CountLabels(gr, lab)
    IN  Ascending(gr.n, 0, {i \in Vertices(gr) : count[lab[i]] >= min_size})

\* The outcomes of filterComponents(g, min_size, out): the call is lost
\* where connectedComponents is.
filterComponents(gr, min_size) ==
    {IF cc.status = "abort"
     THEN [status |-> "abort", keep |-> << >>, out |-> NewGraph(0)]
     ELSE LET keep == filterKeep(gr, cc.comp, min_size)
          IN  [status |-> "ok", keep |-> keep, out |-> subgraph(gr, keep)]
     : cc \in connectedComponents(gr)}

----------------------------------------------------------------------------
(* largestComponentIndices, largestComponent                               *)

RECURSIVE ScanLargest(_, _, _, _)
\* int largest = 0; for i in 0..n-1: if(count[i] > count[largest]) largest = i;
ScanLargest(count, n, i, largest) ==
    IF i >= n THEN largest
    ELSE IF count[i] > count[largest] THEN ScanLargest(count, n, i + 1, i)
    ELSE ScanLargest(count, n, i + 1, largest)

\* The outcomes of largestComponentIndices(g, indices).
largestComponentIndices(gr) ==
    {IF cc.status = "abort"
     THEN [status |-> "abort", indices |-> << >>]
     ELSE LET largest == ScanLargest(CountLabels(gr, cc.comp), gr.n, 0, 0)
          IN  [status |-> "ok",
               indices |-> Ascending(gr.n, 0, {i \in Vertices(gr) : cc.comp[i] = largest})]
     : cc \in connectedComponents(gr)}

\* The outcomes of largestComponent(g, out).
largestComponent(gr) ==
    {IF li.status = "abort"
     THEN [status |-> "abort", indices |-> << >>, out |-> NewGraph(0)]
     ELSE [status |-> "ok", indices |-> li.indices, out |-> subgraph(gr, li.indices)]
     : li \in largestComponentIndices(gr)}

----------------------------------------------------------------------------
(* randomizeEndpoints                                                      *)

\* if(gen() % 2 == 0) {x1 = first; x2 = second} else {x1 = second; x2 = first}
Orient(pair, r) == IF r = 0 THEN pair ELSE <<pair[2], pair[1]>>

\* a1 == b1 || a1 == b2 || a2 == b1 || a2 == b2
SharesEndpoint(a1, a2, b1, b2) == a1 = b1 \/ a1 = b2 \/ a2 = b1 \/ a2 = b2

\* is_adjacent(g, a1, b2) || is_adjacent(g, b1, a2)
CandidateExists(gr, a1, a2, b1, b2) ==
    is_adjacent(gr, a1, b2) \/ is_adjacent(gr, b1, a2)

\* Which way one iteration with these draws leaves the loop body.
Path(gr, snap, e1, e2, r1, r2) ==
    IF e1 = e2 THEN "same"
    ELSE LET a == Orient(snap[e1 + 1], r1)
             b == Orient(snap[e2 + 1], r2)
         IN  IF SharesEndpoint(a[1], a[2], b[1], b[2]) THEN "shared"
             ELSE IF CandidateExists(gr, a[1], a[2], b[1], b[2]) THEN "adjacent"
             ELSE "swapped"

\* remove_edge(a1, a2); remove_edge(b1, b2); add_edge(a1, b2); add_edge(b1, a2)
SwapGraph(gr, a1, a2, b1, b2) ==
    add_edge(b1, a2, add_edge(a1, b2, remove_edge(b1, b2, remove_edge(a1, a2, gr))))

\* edges[e1] = (a1, b2); edges[e2] = (b1, a2)
SwapSnapshot(snap, e1, e2, a1, a2, b1, b2) ==
    [snap EXCEPT ![e1 + 1] = <<a1, b2>>, ![e2 + 1] = <<b1, a2>>]

\* A variant that removes the two edges before the adjacency test.
GraphAfter_early_remove(gr, path, a1, a2, b1, b2) ==
    IF path = "swapped" THEN SwapGraph(gr, a1, a2, b1, b2)
    ELSE IF path = "adjacent" THEN remove_edge(b1, b2, remove_edge(a1, a2, gr))
    ELSE gr

\* The graph after one iteration: changed only when no continue was taken.
GraphAfter(gr, path, a1, a2, b1, b2) ==
    IF path = "swapped" THEN SwapGraph(gr, a1, a2, b1, b2) ELSE gr

NoDraw == [e1 |-> -1, e2 |-> -1, a1 |-> -1, a2 |-> -1, b1 |-> -1, b2 |-> -1,
           path |-> "none"]

\* Lines 193-201: the snapshot is taken, swaps = 0.
randomizeEndpoints(count) ==
    /\ pc = "idle"
    /\ pc' = "loop"
    /\ op' = "randomizeEndpoints"
    /\ arg' = count
    /\ g0' = g
    /\ edges' = get_edges(g)
    /\ swaps' = 0
    /\ draw' = NoDraw
    /\ UNCHANGED <<g, comp, ret, indices, out>>

\* while(swaps < count) is false: the function returns.
LoopExit ==
    /\ pc = "loop"
    /\ ~(swaps < arg)
    /\ pc' = "done"
    /\ draw' = NoDraw
    /\ UNCHANGED <<g, op, arg, comp, ret, indices, out, g0, edges, swaps>>

\* One iteration of the loop, lines 203-240, with a non-empty snapshot:
\* the indices are drawn from 0 .. edges.size()-1.
Iterate ==
    /\ pc = "loop"
    /\ swaps < arg
    /\ Len(edges) > 0
    /\ \E e1 \in 0 .. (Len(edges) - 1), e2 \in 0 .. (Len(edges) - 1), r1 \in {0, 1}, r2 \in {0, 1} :
         LET path == Path(g, edges, e1, e2, r1, r2)
         IN  IF path = "same"
             THEN /\ draw' = [NoDraw EXCEPT !.e1 = e1, !.e2 = e2, !.path = path]
                  /\ UNCHANGED <<g, edges, swaps>>
             ELSE LET a == Orient(edges[e1 + 1], r1)
                      b == Orient(edges[e2 + 1], r2)
                  IN  /\ draw' = [e1 |-> e1, e2 |-> e2, a1 |-> a[1], a2 |-> a[2],
                                  b1 |-> b[1], b2 |-> b[2], path |-> path]
                      /\ g' = GraphAfter(g, path, a[1], a[2], b[1], b[2])
                      /\ edges' = IF path = "swapped"
                                  THEN SwapSnapshot(edges, e1, e2, a[1], a[2], b[1], b[2])
                                  ELSE edges
                      /\ swaps' = IF path = "swapped" THEN swaps + 1 ELSE swaps
    /\ UNCHANGED <<pc, op, arg, comp, ret, indices, out, g0>>

\* One iteration with an empty snapshot: edges.size()-1 wraps to SIZE_MAX,
\* so any index may be drawn.  Equal indices continue; otherwise edges[e1]
\* is read out of bounds, which is undefined behaviour: the call is lost.
IterateEmpty ==
    /\ pc = "loop"
    /\ swaps < arg
    /\ Len(edges) = 0
    /\ \E e1 \in 0 .. EmptyDrawMax, e2 \in 0 .. EmptyDrawMax :
         /\ draw' = [NoDraw EXCEPT !.e1 = e1, !.e2 = e2,
                                   !.path = IF e1 = e2 THEN "same" ELSE "out_of_bounds"]
         /\ pc' = IF e1 = e2 THEN "loop" ELSE "undefined"
    /\ UNCHANGED <<g, op, arg, comp, ret, indices, out, g0, edges, swaps>>

----------------------------------------------------------------------------
(* The host's calls of the read-only algorithms.                           *)

\* A call that ends in the library's assertion failure: nothing is returned.
Aborted(name) ==
    /\ pc' = "aborted"
    /\ op' = name
    /\ UNCHANGED <<g, comp, ret, indices, out, g0, edges, swaps, draw>>

Call_add_edges(in) ==
    /\ pc = "idle"
    /\ g' = add_edges(in, g)
    /\ arg' = in
    /\ pc' = "returned"
    /\ op' = "add_edges"
    /\ UNCHANGED <<comp, ret, indices, out, g0, edges, swaps, draw>>

Call_removeEdgeLoops ==
    /\ pc = "idle"
    /\ g' = removeEdgeLoops(g)
    /\ pc' = "returned"
    /\ op' = "removeEdgeLoops"
    /\ UNCHANGED <<arg, comp, ret, indices, out, g0, edges, swaps, draw>>

Call_connectedComponents ==
    /\ pc = "idle"
    /\ \E cc \in connectedComponents(g) :
         IF cc.status = "abort"
         THEN Aborted("connectedComponents") /\ UNCHANGED arg
         ELSE /\ comp' = cc.comp
              /\ ret' = cc.ret
              /\ pc' = "returned"
              /\ op' = "connectedComponents"
              /\ UNCHANGED <<g, arg, indices, out, g0, edges, swaps, draw>>

Call_subgraph(ind) ==
    /\ pc = "idle"
    /\ out' = subgraph(g, ind)
    /\ arg' = ind
    /\ pc' = "returned"
    /\ op' = "subgraph"
    /\ UNCHANGED <<g, comp, ret, indices, g0, edges, swaps, draw>>

Call_filterComponents(min_size) ==
    /\ pc = "idle"
    /\ arg' = min_size
    /\ \E r \in filterComponents(g, min_size) :
         IF r.status = "abort"
         THEN Aborted("filterComponents")
         ELSE /\ indices' = r.keep
              /\ out' = r.out
              /\ pc' = "returned"
              /\ op' = "filterComponents"
              /\ UNCHANGED <<g, comp, ret, g0, edges, swaps, draw>>

Call_get_edges ==
    /\ pc = "idle"
    /\ edges' = get_edges(g)
    /\ pc' = "returned"
    /\ op' = "get_edges"
    /\ UNCHANGED <<g, arg, comp, ret, indices, out, g0, swaps, draw>>

Call_is_adjacent(u, v) ==
    /\ pc = "idle"
    /\ ret' = is_adjacent(g, u, v)
    /\ arg' = <<u, v>>
    /\ pc' = "returned"
    /\ op' = "is_adjacent"
    /\ UNCHANGED <<g, comp, indices, out, g0, edges, swaps, draw>>

Call_largestComponentIndices ==
    /\ pc = "idle"
    /\ \E r \in largestComponentIndices(g) :
         IF r.status = "abort"
         THEN Aborted("largestComponentIndices") /\ UNCHANGED arg
         ELSE /\ indices' = r.indices
              /\ pc' = "returned"
              /\ op' = "largestComponentIndices"
              /\ UNCHANGED <<g, arg, comp, ret, out, g0, edges, swaps, draw>>

Call_largestComponent ==
    /\ pc = "idle"
    /\ \E r \in largestComponent(g) :
         IF r.status = "abort"
         THEN Aborted("largestComponent") /\ UNCHANGED arg
         ELSE /\ indices' = r.indices
              /\ out' = r.out
              /\ pc' = "returned"
              /\ op' = "largestComponent"
              /\ UNCHANGED <<g, arg, comp, ret, g0, edges, swaps, draw>>

----------------------------------------------------------------------------
(* Inputs and specifications.                                              *)

CanonicalPairs(n) == {p \in (0 .. (n - 1)) \X (0 .. (n - 1)) : p[1] <= p[2]}

PairLeq(p, q) == p[1] < q[1] \/ (p[1] = q[1] /\ p[2] <= q[2])

\* Edge lists of at most MaxE canonical pairs in non-decreasing order: one
\* list per multiset of undirected edges.
EdgeLists(n) ==
    UNION {{s \in [1 .. k -> CanonicalPairs(n)] :
               \A i \in 1 .. (k - 1) : PairLeq(s[i], s[i + 1])} : k \in 0 .. MaxE}

\* The pair lists a host hands to add_edges: at most len pairs, in either
\* orientation, self-loops and repetitions included.
PairLists(n, len) ==
    UNION {[1 .. k -> (0 .. (n - 1)) \X (0 .. (n - 1))] : k \in 0 .. len}

\* Sequences of distinct vertices of a graph with n vertices.
DistinctSeqs(n) ==
    UNION {{s \in [1 .. k -> 0 .. (n - 1)] :
               \A i \in 1 .. k : \A j \in 1 .. k : s[i] = s[j] => i = j} : k \in 0 .. n}

InitCommon ==
    /\ pc = "idle"
    /\ op = "none"
    /\ arg = 0
    /\ comp = << >>
    /\ ret = 0
    /\ indices = << >>
    /\ out = NewGraph(0)
    /\ g0 = g
    /\ edges = << >>
    /\ swaps = 0
    /\ draw = NoDraw

\* out_degree of v: a self-loop counts twice.
Degree(gr, v) ==
    Cardinality({i \in 1 .. Len(gr.edges) : gr.edges[i][1] = v})
  + Cardinality({i \in 1 .. Len(gr.edges) : gr.edges[i][2] = v})

\* No edge from a vertex to itself.
NoSelfLoop(gr) == \A i \in 1 .. Len(gr.edges) : gr.edges[i][1] # gr.edges[i][2]

\* No two edges join the same two vertices.
NoDuplicate(gr) ==
    \A i \in 1 .. Len(gr.edges) : \A j \in 1 .. Len(gr.edges) :
        Ends(gr.edges[i]) = Ends(gr.edges[j]) => i = j

\* randomizeEndpoints treats all vertices alike, so it is explored on one
\* numbering of each graph: MaxN vertices, degrees non-increasing in the
\* vertex index.
DegreeOrdered(gr) ==
    \A v \in 0 .. (gr.n - 2) : Degree(gr, v) >= Degree(gr, v + 1)

\* Any graph an adjacency_list can hold: self-loops and parallel edges too.
InitAny ==
    /\ \E es \in EdgeLists(MaxN) :
          /\ g = [n |-> MaxN, edges |-> es]
          /\ DegreeOrdered(g)
    /\ InitCommon

\* The graphs the randomizer is meant for: no self-loop, no parallel edge.
Init ==
    /\ \E es \in EdgeLists(MaxN) :
          /\ g = [n |-> MaxN, edges |-> es]
          /\ DegreeOrdered(g)
          /\ NoSelfLoop(g)
          /\ NoDuplicate(g)
    /\ InitCommon

Next ==
    \/ pc = "idle" /\ \E count \in 0 .. MaxCount : randomizeEndpoints(count)
    \/ LoopExit
    \/ Iterate
    \/ IterateEmpty

Spec == Init /\ [][Next]_vars

\* The call runs to completion on the caller's thread: while the loop can
\* take a step that changes its state, it takes one.
FairSpec == Spec /\ WF_vars(Next)

NextAny ==
    \/ pc = "idle" /\ \E count \in 0 .. MaxCountAny : randomizeEndpoints(count)
    \/ LoopExit
    \/ Iterate
    \/ IterateEmpty

SpecAny == InitAny /\ [][NextAny]_vars

InitAlg ==
    /\ \E n \in 0 .. MaxN : \E es \in EdgeLists(n) : g = [n |-> n, edges |-> es]
    /\ InitCommon

Min(a, b) == IF a <= b THEN a ELSE b

NextAlg ==
    \/ pc = "idle" /\ \E in \in PairLists(g.n, Min(MaxIn, MaxE - Len(g.edges))) :
           Call_add_edges(in)
    \/ Call_removeEdgeLoops
    \/ Call_connectedComponents
    \/ pc = "idle" /\ \E ind \in DistinctSeqs(g.n) : Call_subgraph(ind)
    \/ pc = "idle" /\ \E min_size \in 0 .. (MaxN + 1) : Call_filterComponents(min_size)
    \/ Call_largestComponentIndices
    \/ Call_largestComponent
    \/ Call_get_edges
    \/ pc = "idle" /\ \E u \in Vertices(g) : \E v \in Vertices(g) : Call_is_adjacent(u, v)

SpecAlg == InitAlg /\ [][NextAlg]_vars

----------------------------------------------------------------------------
(* Vocabulary of the properties.                                           *)

\* u and v are the same vertex or joined by an edge, in either direction.
Linked(gr) ==
    {p \in Vertices(gr) \X Vertices(gr) :
        p[1] = p[2] \/ \E i \in 1 .. Len(gr.edges) : Ends(gr.edges[i]) = {p[1], p[2]}}

RECURSIVE Warshall(_, _, _)
\* Transitive closure of R over the vertices 0 .. n-1, one pivot at a time.
Warshall(R, k, n) ==
    IF k >= n THEN R
    ELSE Warshall(R \cup {p \in (0 .. (n - 1)) \X (0 .. (n - 1)) :
                             <<p[1], k>> \in R /\ <<k, p[2]>> \in R},
                  k + 1, n)

\* The pairs <<u, v>> such that a path joins u and v.
PathJoined(gr) == Warshall(Linked(gr), 0, gr.n)

\* How many edges of gr are stored as <<u, v>>.
Mult(gr, u, v) == Cardinality({i \in 1 .. Len(gr.edges) : gr.edges[i] = <<u, v>>})

\* How many entries of the edge sequence es join u and v, either way round.
Between(es, u, v) == Cardinality({i \in 1 .. Len(es) : Ends(es[i]) = {u, v}})

Range(sq) == {sq[i] : i \in 1 .. Len(sq)}

StrictlyAscending(sq) == \A i \in 1 .. (Len(sq) - 1) : sq[i] < sq[i + 1]

Identity(n) == [i \in 1 .. n |-> i - 1]

\* o is the subgraph of gr induced by the distinct vertices ind: new vertex
\* i stands for ind[i], and every edge with both ends kept is there once.
IsInduced(gr, ind, o) ==
    /\ o.n = Len(ind)
    /\ \A k \in 1 .. Len(o.edges) :
          o.edges[k][1] \in Vertices(o) /\ o.edges[k][2] \in Vertices(o)
    /\ \A i \in 1 .. Len(ind) : \A j \in 1 .. Len(ind) :
          Mult(o, i - 1, j - 1) = Mult(gr, ind[i], ind[j])

Returned(name) == pc = "returned" /\ op = name

InRandomizer == op = "randomizeEndpoints" /\ pc \in {"loop", "done", "undefined"}

\* No pair of draws would be accepted.
NoAdmissibleSwap(gr, snap) ==
    \A e1 \in 0 .. (Len(snap) - 1), e2 \in 0 .. (Len(snap) - 1), r1 \in {0, 1}, r2 \in {0, 1} :
        Path(gr, snap, e1, e2, r1, r2) # "swapped"

----------------------------------------------------------------------------
(* Properties.                                                             *)

\* C1: after any accepted swaps of randomizeEndpoints every vertex has the
\* degree it had before the call, and the number of edges is the same.
C1_DegreesAndEdgeCountPreserved ==
    InRandomizer =>
        /\ \A v \in Vertices(g0) : Degree(g, v) = Degree(g0, v)
        /\ Len(g.edges) = Len(g0.edges)

\* C2: a graph without self-loop and without duplicate edge stays so after
\* every accepted swap, and a swap is accepted only when the two oriented
\* edges share no endpoint and neither candidate edge (a1,b2), (b1,a2) was
\* in the graph.
C2_StaysSimple ==
    /\ [](InRandomizer /\ NoSelfLoop(g0) /\ NoDuplicate(g0)
             => NoSelfLoop(g) /\ NoDuplicate(g))
    /\ [][swaps' # swaps =>
             /\ ~SharesEndpoint(draw'.a1, draw'.a2, draw'.b1, draw'.b2)
             /\ Between(g.edges, draw'.a1, draw'.b2) = 0
             /\ Between(g.edges, draw'.b1, draw'.a2) = 0]_vars

C2_Witness ==
    /\ InRandomizer /\ NoSelfLoop(g0) /\ NoDuplicate(g0)
    /\ swaps = 2
    /\ Len(g.edges) = 3
    /\ draw.path = "swapped"
    /\ g # g0

\* C3: called with a positive count on a graph that admits no swap, the
\* randomizer ends by reporting UnsatisfiableSwapRequest.
C3_UnsatisfiableRequestReported ==
    (pc = "loop" /\ swaps < arg /\ Len(edges) >= 2 /\ NoAdmissibleSwap(g, edges))
        ~> (pc = "UnsatisfiableSwapRequest")

\* C4: called with a positive count on a graph without edges, the
\* randomizer draws no index from the empty snapshot and ends only by
\* reporting EmptyGraphOperation.
C4_EmptyGraphFailsExplicitly ==
    (op = "randomizeEndpoints" /\ arg > 0 /\ Len(g0.edges) = 0) =>
        /\ draw.path = "none"
        /\ pc \in {"loop", "EmptyGraphOperation"}

\* The labels and the returned count are those of the components of g.
ComponentLabelsRight ==
    LET R == PathJoined(g)
    IN  /\ DOMAIN comp = Vertices(g)
        /\ \A u \in Vertices(g) : \A v \in Vertices(g) :
              (comp[u] = comp[v]) <=> (<<u, v>> \in R)
        /\ {comp[v] : v \in Vertices(g)} = 0 .. (ret - 1)
        /\ ret = Cardinality({{w \in Vertices(g) : <<v, w>> \in R} : v \in Vertices(g)})

\* C5: called on any graph, connectedComponents returns, gives two vertices
\* the same label exactly when a path joins them, uses exactly the labels
\* 0 .. k-1, and returns k, the number of components.
C5_ComponentLabels ==
    op = "connectedComponents" => pc = "returned" /\ ComponentLabelsRight

\* C6: for distinct valid indices, subgraph builds the induced subgraph
\* (|indices| vertices, new vertex i for old vertex indices[i], every edge
\* with both ends kept copied once), and with indices = 0 .. n-1 the output
\* has the vertex count and the edges of g.
C6_SubgraphInduced ==
    Returned("subgraph") =>
        /\ IsInduced(g, arg, out)
        /\ Len(out.edges) =
             Cardinality({k \in 1 .. Len(g.edges) :
                             g.edges[k][1] \in Range(arg) /\ g.edges[k][2] \in Range(arg)})
        /\ arg = Identity(g.n) => out.n = g.n /\ out.edges = g.edges

C6_Witness ==
    /\ Returned("subgraph")
    /\ arg = <<3, 1, 0>>
    /\ Len(g.edges) = 3
    /\ out.edges = <<<<2, 1>>, <<1, 0>>>>

\* The labels connectedComponents gives g when it returns.
LabelsOf(gr) == (CHOOSE cc \in connectedComponents(gr) : cc.status = "ok").comp

\* indices are, in ascending order, the vertices of the lowest-numbered
\* label among those with the largest count.
LargestIndicesRight ==
    LET lab == LabelsOf(g)
        size(l) == Cardinality({v \in Vertices(g) : lab[v] = l})
        first(v) == /\ \A w \in Vertices(g) : size(lab[w]) <= size(lab[v])
                    /\ \A w \in Vertices(g) :
                          size(lab[w]) = size(lab[v]) => lab[v] <= lab[w]
    IN  /\ StrictlyAscending(indices)
        /\ Range(indices) \subseteq Vertices(g)
        /\ \A v \in Vertices(g) : v \in Range(indices) <=> first(v)

\* out is the connected graph the indices induce, with as many vertices as
\* the largest count.
LargestComponentRight ==
    LET lab == LabelsOf(g)
        size(l) == Cardinality({v \in Vertices(g) : lab[v] = l})
    IN  /\ LargestIndicesRight
        /\ IsInduced(g, indices, out)
        /\ \A v \in Vertices(g) : out.n >= size(lab[v])
        /\ g.n > 0 => \E v \in Vertices(g) : out.n = size(lab[v])
        /\ PathJoined(out) = Vertices(out) \X Vertices(out)

\* C7: called on any graph, largestComponentIndices returns, in ascending
\* order, the vertices of the lowest-numbered label among those with the
\* largest count, and largestComponent returns the graph built from them,
\* which is connected and has as many vertices as that count.
C7_LargestComponent ==
    /\ op = "largestComponentIndices" => pc = "returned" /\ LargestIndicesRight
    /\ op = "largestComponent" => pc = "returned" /\ LargestComponentRight

\* indices are, in ascending order, the vertices whose component has at
\* least min_size vertices, and out is the graph they induce.
FilterComponentsRight ==
    LET R == PathJoined(g)
        csize(v) == Cardinality({w \in Vertices(g) : <<v, w>> \in R})
    IN  /\ StrictlyAscending(indices)
        /\ Range(indices) = {v \in Vertices(g) : csize(v) >= arg}
        /\ IsInduced(g, indices, out)
        /\ arg = 1 => out.n = g.n /\ out.edges = g.edges
        /\ arg > g.n => out.n = 0 /\ out.edges = << >>

\* C8: called on any graph, filterComponents returns and keeps, in
\* ascending order, exactly the vertices whose component has at least
\* min_size vertices, with the subgraph they induce; min_size = 1 keeps
\* every vertex and edge, min_size > n keeps nothing.
C8_FilterComponents ==
    op = "filterComponents" => pc = "returned" /\ FilterComponentsRight

\* C9: on a graph without duplicate edges, at the start of every loop
\* iteration the snapshot holds, as unordered pairs, exactly the edges of
\* the graph, each at one position.
C9_SnapshotInSync ==
    (pc = "loop" /\ swaps < arg /\ NoDuplicate(g0)) =>
        /\ Len(edges) = Len(g.edges)
        /\ \A u \in Vertices(g) : \A v \in Vertices(g) :
              Between(edges, u, v) = Between(g.edges, u, v)

\* C10: a draw rejected for equal indices, a shared endpoint or an existing
\* candidate edge leaves the graph, the snapshot and the swap count as they
\* were, and a call with count 0 returns with the graph unchanged.
C10_RejectionChangesNothing ==
    /\ [][(pc = "loop" /\ draw'.path \in {"same", "shared", "adjacent"})
             => g' = g /\ edges' = edges /\ swaps' = swaps]_vars
    /\ [][g' # g => swaps' = swaps + 1 /\ draw'.path = "swapped"]_vars
    /\ [](pc = "done" /\ arg = 0 => g = g0 /\ swaps = 0)

C10_Witness ==
    /\ pc = "loop"
    /\ swaps = 1
    /\ draw.path = "adjacent"
    /\ g # g0

====
